---- MODULE Spec2Model ----
(***************************************************************************)
(* Model of rowans329/calculator, src/main.rs: tokenize (a regex scan of   *)
(* the input text) followed by solve's two-stack operator-precedence       *)
(* evaluation.  A text is a sequence of one-character strings.  A failure  *)
(* of the program is a Rust panic; the model records which panic site      *)
(* fired in err.                                                           *)
(***************************************************************************)
EXTENDS Integers, Sequences, FiniteSets, TLC

VARIABLES str, pc, tokens, i, output, operator_stack, result, err, applies

vars == <<str, pc, tokens, i, output, operator_stack, result, err, applies>>

----------------------------------------------------------------------------
(* Bounds of the model *)

\* longest lexeme sequence enumerated exhaustively
MaxTok == 4
\* longest well-formed infix lexeme sequence generated
MaxWF == 7
\* integers of magnitude up to Limit are computed exactly
Limit == 32768

----------------------------------------------------------------------------
(* f64 values.  <<"num", n>> is the integer n (and <<"num", 0>> is +0.0);  *)
(* <<"lit", lexeme>> is a literal with a fraction or an exponent; a triple *)
(* <<op, lhs, rhs>> is the f64 result of op on lhs and rhs, left           *)
(* unevaluated where the result is not a small integer known exactly       *)
(* (a fraction, an infinity, a NaN, a signed zero, a large magnitude).     *)

Num(n) == <<"num", n>>

NoValue == <<"none">>

Abs(n) == IF n < 0 THEN -n ELSE n

IsExact(v) == v[1] = "num" /\ Abs(v[2]) <= Limit

RECURSIVE PowAcc(_, _, _)
\* acc * a^b for b >= 0 and |a| >= 2, or Limit + 1 as soon as the magnitude
\* passes Limit
PowAcc(a, b, acc) ==
    IF b = 0 THEN acc
    ELSE IF Abs(acc * a) > Limit THEN Limit + 1
    ELSE PowAcc(a, b - 1, acc * a)

\* a^b for b >= 0, or Limit + 1 where the magnitude passes Limit
PowCapped(a, b) ==
    IF b = 0 THEN 1
    ELSE IF a = 0 THEN 0
    ELSE IF a = 1 THEN 1
    ELSE IF a = -1 THEN (IF b % 2 = 0 THEN 1 ELSE -1)
    ELSE PowAcc(a, b, 1)

\* Operator::apply
Operator_apply(op, lhs, rhs) ==
    LET a == lhs[2]
        b == rhs[2]
        kept == <<op, lhs, rhs>>
        small(n) == IF Abs(n) <= Limit THEN Num(n) ELSE kept
    IN  IF ~(IsExact(lhs) /\ IsExact(rhs)) THEN kept
        ELSE CASE op = "Add" -> small(a + b)
               [] op = "Sub" -> small(a - b)
               [] op = "Mul" -> IF a * b = 0 /\ (a < 0 \/ b < 0) THEN kept
                                ELSE small(a * b)
               [] op = "Div" -> IF b = 0 \/ (a = 0 /\ b < 0) THEN kept
                                ELSE IF Abs(a) % Abs(b) # 0 THEN kept
                                ELSE IF (a < 0) = (b < 0)
                                     THEN Num(Abs(a) \div Abs(b))
                                     ELSE Num(-(Abs(a) \div Abs(b)))
               [] op = "Mod" -> IF b = 0 THEN kept
                                ELSE IF a < 0
                                     THEN (IF Abs(a) % Abs(b) = 0 THEN kept
                                           ELSE Num(-(Abs(a) % Abs(b))))
                                     ELSE Num(a % Abs(b))
               [] op = "Exp" -> IF b < 0 THEN kept
                                ELSE small(PowCapped(a, b))

----------------------------------------------------------------------------
(* Operator *)

Operators == {"Add", "Sub", "Mul", "Div", "Mod", "Exp", "LPar", "RPar"}

\* Operator::from_symbol
from_symbol(s) ==
    CASE s = "+" -> "Add"
      [] s = "-" -> "Sub"
      [] s = "*" -> "Mul"
      [] s = "/" -> "Div"
      [] s = "%" -> "Mod"
      [] s = "^" -> "Exp"
      [] s = "(" -> "LPar"
      [] s = ")" -> "RPar"

\* a plausible slip: Mul ranked with Add and Sub
precedence_MulLow(op) ==
    CASE op \in {"Add", "Sub", "Mul"} -> 2
      [] op \in {"Div", "Mod"} -> 3
      [] op = "Exp" -> 4
      [] OTHER -> 0

\* Operator::precedence
precedence(op) ==
    CASE op \in {"Add", "Sub"} -> 2
      [] op \in {"Mul", "Div", "Mod"} -> 3
      [] op = "Exp" -> 4
      [] OTHER -> 0

\* Operator::is_left_associative
is_left_associative(op) == op \in {"Add", "Sub", "Mul", "Div", "Mod"}

----------------------------------------------------------------------------
(* Token *)

Number(v) == <<"Number", v>>

Operator(op) == <<"Operator", op>>

IsNumber(t) == t[1] = "Number"

IsOp(t, op) == t[1] = "Operator" /\ t[2] = op

IsBinary(t) == t[1] = "Operator" /\ t[2] \notin {"LPar", "RPar"}

----------------------------------------------------------------------------
\* tokenize: the regex is  digits ( any-char digits )*  |  one of + - * / % ^ ( and )
\* (capture group 1 the number, capture group 3 the operator symbol)

Digits == {"0", "1", "2", "3", "4", "5", "6", "7", "8", "9"}

OpSymbols == {"+", "-", "*", "/", "%", "^", "(", ")"}

IsDigit(c) == c \in Digits

\* the regex's `.`: any character but a line feed
Dot(c) == c # "\n"

DigitVal(c) ==
    CASE c = "0" -> 0 [] c = "1" -> 1 [] c = "2" -> 2 [] c = "3" -> 3
      [] c = "4" -> 4 [] c = "5" -> 5 [] c = "6" -> 6 [] c = "7" -> 7
      [] c = "8" -> 8 [] c = "9" -> 9

RECURSIVE DigitsEnd(_, _)
\* [0-9]+ from position p (a digit): the position after the run
DigitsEnd(s, p) ==
    IF p <= Len(s) /\ IsDigit(s[p]) THEN DigitsEnd(s, p + 1) ELSE p

RECURSIVE GroupsEnd(_, _)
\* (.[0-9]+)* from position p: the position after the last group
GroupsEnd(s, p) ==
    IF p + 1 <= Len(s) /\ Dot(s[p]) /\ IsDigit(s[p + 1])
    THEN GroupsEnd(s, DigitsEnd(s, p + 1))
    ELSE p

\* capture group 1 matched at p: the position after the match
NumberMatchEnd(s, p) == GroupsEnd(s, DigitsEnd(s, p))

RECURSIVE DecValue(_)
DecValue(ds) ==
    IF ds = <<>> THEN 0
    ELSE 10 * DecValue(SubSeq(ds, 1, Len(ds) - 1)) + DigitVal(ds[Len(ds)])

\* the characters of a matched number that are not digits, in order
Separators(lex) ==
    LET idx == {k \in 1..Len(lex) : ~IsDigit(lex[k])}
        RECURSIVE pick(_)
        pick(k) == IF k > Len(lex) THEN <<>>
                   ELSE IF k \in idx THEN <<lex[k]>> \o pick(k + 1)
                   ELSE pick(k + 1)
    IN  pick(1)

\* f64::from_str on a matched number: digits, with at most one "." followed
\* by at most one exponent mark, parse; anything else is a ParseFloatError
from_str(lex) ==
    LET seps == Separators(lex)
    IN  IF seps = <<>> THEN [ok |-> TRUE, val |-> Num(DecValue(lex))]
        ELSE IF seps \in {<<".">>, <<"e">>, <<"E">>, <<".", "e">>, <<".", "E">>}
             THEN [ok |-> TRUE, val |-> <<"lit", lex>>]
             ELSE [ok |-> FALSE, val |-> NoValue]

RECURSIVE captures_iter(_, _, _)
\* the for loop of tokenize from position p, acc the tokens pushed so far
captures_iter(s, p, acc) ==
    IF p > Len(s) THEN [ok |-> TRUE, tokens |-> acc]
    ELSE IF IsDigit(s[p])
         THEN LET e == NumberMatchEnd(s, p)
                  n == from_str(SubSeq(s, p, e - 1))
              IN  IF n.ok THEN captures_iter(s, e, Append(acc, Number(n.val)))
                  ELSE [ok |-> FALSE, tokens |-> acc]
    ELSE IF s[p] \in OpSymbols
         THEN captures_iter(s, p + 1, Append(acc, Operator(from_symbol(s[p]))))
    ELSE captures_iter(s, p + 1, acc)

\* tokenize: ok = FALSE is the panic of unwrap() on a ParseFloatError
tokenize(s) == captures_iter(s, 1, <<>>)

----------------------------------------------------------------------------
(* The stacks *)

None == "None"

\* first_operator_in_stack
first_operator_in_stack(stack) ==
    IF stack = <<>> THEN None ELSE stack[Len(stack)]

\* first_non_para_in_stack
first_non_para_in_stack(stack) ==
    LET op == first_operator_in_stack(stack)
    IN  IF op # None /\ op # "LPar" THEN op ELSE None

Pop(stack) == SubSeq(stack, 1, Len(stack) - 1)

RECURSIVE Reverse(_)
Reverse(s) == IF s = <<>> THEN <<>> ELSE Append(Reverse(Tail(s)), Head(s))

\* <Vec<f64> as Apply>::apply: ok = FALSE is the panic of unwrap() on None
apply(out, op) ==
    IF Len(out) < 2 THEN [ok |-> FALSE, output |-> <<>>]
    ELSE [ok |-> TRUE,
          output |-> Append(SubSeq(out, 1, Len(out) - 2),
                            Operator_apply(op, out[Len(out) - 1], out[Len(out)]))]

----------------------------------------------------------------------------
(* Input texts: lexemes joined by a separator.  Every lexeme sequence up   *)
(* to MaxTok over ExhLexemes, and every well-formed infix sequence up to   *)
(* MaxWF lexemes over all six binary operators, each written with every    *)
(* separator of Seps between its lexemes.                                  *)

NumLexemes == {"2", "3"}

BinSymbols == {"+", "-", "*", "/", "%", "^"}

ExhLexemes == NumLexemes \cup {"-", "*", "^", "(", ")"}

Seps == {<<>>, <<" ">>, <<",">>, <<" ", " ">>}

AllLexSeqs == UNION {[1..k -> ExhLexemes] : k \in 0..MaxTok}

RECURSIVE ExprOfLen(_), OperandOfLen(_)
OperandOfLen(k) ==
    IF k = 1 THEN {<<n>> : n \in NumLexemes}
    ELSE IF k >= 3 THEN {<<"(">> \o e \o <<")">> : e \in ExprOfLen(k - 2)}
    ELSE {}
ExprOfLen(k) ==
    OperandOfLen(k) \cup
    UNION {{e \o <<o>> \o p : e \in ExprOfLen(j), o \in BinSymbols,
                              p \in OperandOfLen(k - 1 - j)} : j \in 1..(k - 2)}

WellFormedLexSeqs == UNION {ExprOfLen(k) : k \in 1..MaxWF}

RECURSIVE Join(_, _)
Join(ls, sep) ==
    IF Len(ls) <= 1 THEN ls
    ELSE <<Head(ls)>> \o sep \o Join(Tail(ls), sep)

Inputs == {Join(ls, sep) : ls \in AllLexSeqs \cup WellFormedLexSeqs, sep \in Seps}

----------------------------------------------------------------------------
(* solve, as steps on the record of its locals.  pc: "tokenize" before the *)
(* call of tokenize, "for" in the loop over the tokens (i the index of the *)
(* token at hand), "drain" in the loop over the reversed operator stack,   *)
(* "done" once output[0] is returned, "panic" once a panic site fired.     *)

Locals == [pc |-> pc, tokens |-> tokens, i |-> i, output |-> output,
           operator_stack |-> operator_stack, result |-> result,
           err |-> err, applies |-> applies]

Start == [pc |-> "tokenize", tokens |-> <<>>, i |-> 1, output |-> <<>>,
          operator_stack |-> <<>>, result |-> NoValue,
          err |-> "none", applies |-> 0]

Becomes(s) ==
    /\ pc' = s.pc
    /\ tokens' = s.tokens
    /\ i' = s.i
    /\ output' = s.output
    /\ operator_stack' = s.operator_stack
    /\ result' = s.result
    /\ err' = s.err
    /\ applies' = s.applies
    /\ str' = str

Panic(s, site) == [s EXCEPT !.pc = "panic", !.err = site]

\* line 29: tokenize(str)
DoTokenize(s, text) ==
    LET t == tokenize(text)
    IN  IF t.ok THEN [s EXCEPT !.pc = "for", !.tokens = t.tokens]
        ELSE Panic(s, "from_str_unwrap")

\* output.apply(op) with op taken off the operator stack, left as `rest`
DoApply(s, op, rest) ==
    LET r == apply(s.output, op)
    IN  IF r.ok
        THEN [s EXCEPT !.output = r.output, !.operator_stack = rest,
                       !.applies = @ + 1]
        ELSE [Panic(s, "apply_unwrap") EXCEPT !.output = r.output,
                       !.operator_stack = rest, !.applies = @ + 1]

\* line 31
DoNumber(s) ==
    [s EXCEPT !.output = Append(@, s.tokens[s.i][2]), !.i = @ + 1]

\* line 32
DoLPar(s) ==
    [s EXCEPT !.operator_stack = Append(@, "LPar"), !.i = @ + 1]

\* lines 34-37: one iteration of the while loop of a right parenthesis
DoRParPop(s) ==
    IF s.operator_stack = <<>> THEN Panic(s, "assert_not_empty")
    ELSE DoApply(s, first_operator_in_stack(s.operator_stack),
                 Pop(s.operator_stack))

\* line 39
DoRParClose(s) ==
    IF first_operator_in_stack(s.operator_stack) = "LPar"
    THEN [s EXCEPT !.operator_stack = Pop(@), !.i = @ + 1]
    ELSE Panic(s, "assert_eq_lpar")

\* a plausible slip: equal precedence never pops
PopsBefore_Strict(stack_operator, op) ==
    precedence(stack_operator) > precedence(op)

\* lines 43-45: the condition under which the stack's operator is applied first
PopsBefore(stack_operator, op) ==
    \/ precedence(stack_operator) > precedence(op)
    \/ (precedence(stack_operator) = precedence(op) /\ is_left_associative(op))

\* a plausible slip: the operator is applied but stays on the stack
DoOpPop_NoPop(s) ==
    DoApply(s, first_operator_in_stack(s.operator_stack), s.operator_stack)

\* lines 42-51: one iteration of the while loop of a binary operator
DoOpPop(s) ==
    DoApply(s, first_operator_in_stack(s.operator_stack), Pop(s.operator_stack))

\* line 53
DoOpPush(s) ==
    [s EXCEPT !.operator_stack = Append(@, s.tokens[s.i][2]), !.i = @ + 1]

\* line 58
DoReverse(s) ==
    [s EXCEPT !.operator_stack = Reverse(@), !.pc = "drain"]

\* a plausible slip: a left parenthesis left on the stack is dropped
DoDrain_NoAssert(s) ==
    IF Head(s.operator_stack) = "LPar"
    THEN [s EXCEPT !.operator_stack = Tail(@)]
    ELSE DoApply(s, Head(s.operator_stack), Tail(s.operator_stack))

\* lines 60-63: one iteration of the loop over the reversed stack
DoDrain(s) ==
    IF Head(s.operator_stack) = "LPar" THEN Panic(s, "assert_ne_lpar")
    ELSE DoApply(s, Head(s.operator_stack), Tail(s.operator_stack))

\* a plausible slip: an empty operand stack returns zero
DoReturn_Default(s) ==
    IF s.output = <<>> THEN [s EXCEPT !.pc = "done", !.result = Num(0)]
    ELSE [s EXCEPT !.pc = "done", !.result = s.output[1]]

\* line 65
DoReturn(s) ==
    IF s.output = <<>> THEN Panic(s, "index_out_of_bounds")
    ELSE [s EXCEPT !.pc = "done", !.result = s.output[1]]

----------------------------------------------------------------------------
(* Guards: which step solve takes next *)

InFor(s) == s.pc = "for" /\ s.i <= Len(s.tokens)

AtNumber(s) == InFor(s) /\ IsNumber(s.tokens[s.i])

AtLPar(s) == InFor(s) /\ IsOp(s.tokens[s.i], "LPar")

AtRPar(s) == InFor(s) /\ IsOp(s.tokens[s.i], "RPar")

AtRParPop(s) ==
    AtRPar(s) /\ first_operator_in_stack(s.operator_stack) # "LPar"

AtRParClose(s) ==
    AtRPar(s) /\ first_operator_in_stack(s.operator_stack) = "LPar"

AtBinary(s) == InFor(s) /\ IsBinary(s.tokens[s.i])

AtOpPop(s) ==
    /\ AtBinary(s)
    /\ first_non_para_in_stack(s.operator_stack) # None
    /\ PopsBefore(first_non_para_in_stack(s.operator_stack), s.tokens[s.i][2])

AtOpPush(s) == AtBinary(s) /\ ~AtOpPop(s)

AtReverse(s) == s.pc = "for" /\ s.i > Len(s.tokens)

AtDrain(s) == s.pc = "drain" /\ s.operator_stack # <<>>

AtReturn(s) == s.pc = "drain" /\ s.operator_stack = <<>>

Terminated(s) == s.pc \in {"done", "panic"}

\* the step solve takes from s on the text
StepOf(s, text) ==
    CASE s.pc = "tokenize" -> DoTokenize(s, text)
      [] AtNumber(s) -> DoNumber(s)
      [] AtLPar(s) -> DoLPar(s)
      [] AtRParPop(s) -> DoRParPop(s)
      [] AtRParClose(s) -> DoRParClose(s)
      [] AtOpPop(s) -> DoOpPop(s)
      [] AtOpPush(s) -> DoOpPush(s)
      [] AtReverse(s) -> DoReverse(s)
      [] AtDrain(s) -> DoDrain(s)
      [] AtReturn(s) -> DoReturn(s)

RECURSIVE RunFrom(_, _)
RunFrom(s, text) == IF Terminated(s) THEN s ELSE RunFrom(StepOf(s, text), text)

\* solve(text): the locals when it returns or panics
solve(text) == RunFrom(Start, text)

\* what the caller of solve sees
Outcome(s) == <<s.pc, s.result, s.err>>

----------------------------------------------------------------------------
(* The actions *)

Init ==
    /\ str \in Inputs
    /\ pc = Start.pc
    /\ tokens = Start.tokens
    /\ i = Start.i
    /\ output = Start.output
    /\ operator_stack = Start.operator_stack
    /\ result = Start.result
    /\ err = Start.err
    /\ applies = Start.applies

Tokenize == pc = "tokenize" /\ Becomes(DoTokenize(Locals, str))

PushNumber == AtNumber(Locals) /\ Becomes(DoNumber(Locals))

PushLPar == AtLPar(Locals) /\ Becomes(DoLPar(Locals))

RParPop == AtRParPop(Locals) /\ Becomes(DoRParPop(Locals))

RParClose == AtRParClose(Locals) /\ Becomes(DoRParClose(Locals))

OpPop == AtOpPop(Locals) /\ Becomes(DoOpPop(Locals))

OpPush == AtOpPush(Locals) /\ Becomes(DoOpPush(Locals))

ReverseStack == AtReverse(Locals) /\ Becomes(DoReverse(Locals))

Drain == AtDrain(Locals) /\ Becomes(DoDrain(Locals))

Return == AtReturn(Locals) /\ Becomes(DoReturn(Locals))

Next ==
    \/ Tokenize
    \/ PushNumber
    \/ PushLPar
    \/ RParPop
    \/ RParClose
    \/ OpPop
    \/ OpPush
    \/ ReverseStack
    \/ Drain
    \/ Return

Spec == Init /\ [][Next]_vars

----------------------------------------------------------------------------
(* The failures of the specification's taxonomy, by the panic site that    *)
(* stands for each in solve.                                               *)

UnmatchedParenthesis == "assert_not_empty"

MismatchedParenthesis == "assert_ne_lpar"

StackUnderflow == "apply_unwrap"

EmptyResult == "index_out_of_bounds"

Tokenized == pc # "tokenize" /\ err # "from_str_unwrap"

----------------------------------------------------------------------------
(* Reference reading of an infix token sequence: precedence climbing with  *)
(* its own precedence table, independent of solve's stacks.                *)

RefPrec(op) ==
    CASE op \in {"Add", "Sub"} -> 2
      [] op \in {"Mul", "Div", "Mod"} -> 3
      [] op = "Exp" -> 4

RefRightAssoc(op) == op = "Exp"

RefFail == [ok |-> FALSE, val |-> NoValue, pos |-> 0]

RECURSIVE RefExpr(_, _, _), RefClimb(_, _, _, _), RefPrimary(_, _)
\* an operand at position p: a number, or a parenthesised expression
RefPrimary(t, p) ==
    IF p > Len(t) THEN RefFail
    ELSE IF IsNumber(t[p]) THEN [ok |-> TRUE, val |-> t[p][2], pos |-> p + 1]
    ELSE IF IsOp(t[p], "LPar")
         THEN LET r == RefExpr(t, p + 1, 0)
              IN  IF r.ok /\ r.pos <= Len(t) /\ IsOp(t[r.pos], "RPar")
                  THEN [r EXCEPT !.pos = @ + 1]
                  ELSE RefFail
    ELSE RefFail
\* lhs, followed from position p by operators of precedence >= min
RefClimb(t, lhs, p, min) ==
    IF p <= Len(t) /\ IsBinary(t[p]) /\ RefPrec(t[p][2]) >= min
    THEN LET op == t[p][2]
             r == RefExpr(t, p + 1,
                          IF RefRightAssoc(op) THEN RefPrec(op)
                          ELSE RefPrec(op) + 1)
         IN  IF r.ok
             THEN RefClimb(t, Operator_apply(op, lhs, r.val), r.pos, min)
             ELSE RefFail
    ELSE [ok |-> TRUE, val |-> lhs, pos |-> p]
RefExpr(t, p, min) ==
    LET l == RefPrimary(t, p)
    IN  IF l.ok THEN RefClimb(t, l.val, l.pos, min) ELSE RefFail

\* operand, then operator/operand pairs, operands numbers or parenthesised
\* well-formed sequences
RefWellFormed(t) ==
    LET r == RefExpr(t, 1, 0) IN r.ok /\ r.pos = Len(t) + 1

RefValue(t) == RefExpr(t, 1, 0).val

RECURSIVE NestedFrom(_, _, _)
NestedFrom(t, p, depth) ==
    IF p > Len(t) THEN depth = 0
    ELSE IF IsOp(t[p], "LPar") THEN NestedFrom(t, p + 1, depth + 1)
    ELSE IF IsOp(t[p], "RPar") THEN depth > 0 /\ NestedFrom(t, p + 1, depth - 1)
    ELSE NestedFrom(t, p + 1, depth)

\* every right parenthesis closes an earlier left one, and none stays open
WellNested(t) == NestedFrom(t, 1, 0)

NoNumber(t) == \A k \in 1..Len(t) : ~IsNumber(t[k])

NoParens(t) == \A k \in 1..Len(t) : IsNumber(t[k]) \/ IsBinary(t[k])

NumBinary(t, n) == Cardinality({k \in 1..n : IsBinary(t[k])})

NumOp(t, n, op) == Cardinality({k \in 1..n : IsOp(t[k], op)})

OnStack(stack, ops) == Cardinality({k \in 1..Len(stack) : stack[k] \in ops})

BinaryOps == Operators \ {"LPar", "RPar"}

\* the text read as the specification means it: a number literal is a run
\* of digits, an operator symbol is itself, blanks separate
RECURSIVE StrictLex(_, _, _)
StrictLex(s, p, acc) ==
    IF p > Len(s) THEN acc
    ELSE IF IsDigit(s[p])
         THEN StrictLex(s, DigitsEnd(s, p),
                        Append(acc, Number(Num(DecValue(SubSeq(s, p, DigitsEnd(s, p) - 1))))))
    ELSE IF s[p] \in OpSymbols
         THEN StrictLex(s, p + 1, Append(acc, Operator(from_symbol(s[p]))))
    ELSE StrictLex(s, p + 1, acc)

\* a valid infix expression of numbers, binary operators and balanced
\* parentheses, with or without spaces between the lexemes
ValidExpr(s) ==
    /\ \A k \in 1..Len(s) : s[k] \in Digits \cup OpSymbols \cup {" "}
    /\ RefWellFormed(StrictLex(s, 1, <<>>))

----------------------------------------------------------------------------
(* Claims *)

\* C1: for every input text that is a valid infix expression of number
\* literals, binary operators and balanced parentheses, with or without
\* spaces between the lexemes, solve returns the value the expression has
\* under standard arithmetic.
C1_SolveStandardArithmetic ==
    (Terminated(Locals) /\ ValidExpr(str)) =>
        (pc = "done" /\ result = RefValue(StrictLex(str, 1, <<>>)))

\* the regex matches at position p or later in s: how many
RECURSIVE MatchCount(_, _)
MatchCount(s, p) ==
    IF p > Len(s) THEN 0
    ELSE IF IsDigit(s[p]) THEN 1 + MatchCount(s, NumberMatchEnd(s, p))
    ELSE IF s[p] \in OpSymbols THEN 1 + MatchCount(s, p + 1)
    ELSE MatchCount(s, p + 1)

\* C2: tokenize never fails: for every input text it returns a token
\* sequence holding one token per matched number or operator lexeme, and no
\* failure of solve originates in the tokenization step.
C2_TokenizeNeverFails ==
    pc # "tokenize" =>
        (err # "from_str_unwrap" /\ Len(tokens) = MatchCount(str, 1))

\* the places of s between two adjacent lexemes (a digit or an operator
\* symbol on each side, and not inside a run of digits)
LexemeGaps(s) ==
    {k \in 1..(Len(s) - 1) :
        /\ s[k] \in Digits \cup OpSymbols
        /\ s[k + 1] \in Digits \cup OpSymbols
        /\ ~(IsDigit(s[k]) /\ IsDigit(s[k + 1]))}

InsertAt(s, k, sep) == SubSeq(s, 1, k) \o sep \o SubSeq(s, k + 1, Len(s))

\* C3: inserting whitespace or commas between two adjacent lexemes of the
\* input text never changes the outcome of solve.
C3_SeparatorsChangeNothing ==
    Terminated(Locals) =>
        \A k \in LexemeGaps(str) :
            \A sep \in {<<" ">>, <<",">>, <<" ", " ">>, <<",", " ">>} :
                Outcome(solve(InsertAt(str, k, sep))) = Outcome(Locals)

\* C4: when solve returns a value, the operand stack holds exactly one
\* value, that value is the result, and no operator is pending.
C4_OneValueLeft ==
    pc = "done" =>
        (Len(output) = 1 /\ output[1] = result /\ operator_stack = <<>>)

\* C5 as stated: a value is returned only for well-nested parentheses; a
\* right parenthesis processed with no left parenthesis on the operator
\* stack fails with UnmatchedParenthesis, and a left parenthesis still on
\* the operator stack after the last token fails with MismatchedParenthesis.
C5_ParenFailureKinds ==
    /\ pc = "done" => WellNested(tokens)
    /\ (AtRPar(Locals) /\ OnStack(operator_stack, {"LPar"}) = 0) =>
           Outcome(RunFrom(Locals, str)) = <<"panic", NoValue, UnmatchedParenthesis>>
    /\ (AtReverse(Locals) /\ OnStack(operator_stack, {"LPar"}) > 0) =>
           Outcome(RunFrom(Locals, str)) = <<"panic", NoValue, MismatchedParenthesis>>

\* the operators above the topmost left parenthesis of the stack: how many
OpsAboveLPar(stack) ==
    Len(stack) - CHOOSE k \in 1..Len(stack) :
                     /\ stack[k] = "LPar"
                     /\ \A j \in (k + 1)..Len(stack) : stack[j] # "LPar"

\* C5 amended: a value is returned only for well-nested parentheses; a
\* right parenthesis processed with no left parenthesis on the operator
\* stack fails with UnmatchedParenthesis, and a left parenthesis still on
\* the operator stack after the last token fails with
\* MismatchedParenthesis, unless an operator applied on the way lacks
\* operands, which fails with StackUnderflow first.
C5_ParenFailures ==
    /\ pc = "done" => WellNested(tokens)
    /\ (AtRPar(Locals) /\ OnStack(operator_stack, {"LPar"}) = 0) =>
           LET f == RunFrom(Locals, str)
               n == Len(operator_stack)
           IN  /\ f.pc = "panic"
               /\ f.err \in {UnmatchedParenthesis, StackUnderflow}
               /\ f.err = UnmatchedParenthesis <=> (n = 0 \/ Len(output) > n)
    /\ (AtReverse(Locals) /\ OnStack(operator_stack, {"LPar"}) > 0) =>
           LET f == RunFrom(Locals, str)
               n == OpsAboveLPar(operator_stack)
           IN  /\ f.pc = "panic"
               /\ f.err \in {MismatchedParenthesis, StackUnderflow}
               /\ f.err = MismatchedParenthesis <=> (n = 0 \/ Len(output) > n)

\* "1 - 2)" has failed with UnmatchedParenthesis
C5_Witness ==
    /\ pc = "panic" /\ err = UnmatchedParenthesis
    /\ Len(tokens) = 4 /\ IsOp(tokens[4], "RPar") /\ i = 4
    /\ applies = 1

\* C6, on token sequences of numbers and binary operators: a sequence whose
\* first token is a binary operator, or in which two binary operators are
\* adjacent, fails with StackUnderflow and returns no value.
C6_MissingOperandsUnderflow ==
    (/\ Terminated(Locals) /\ Tokenized /\ NoParens(tokens)
     /\ \/ (tokens # <<>> /\ IsBinary(tokens[1]))
        \/ \E k \in 1..(Len(tokens) - 1) :
               IsBinary(tokens[k]) /\ IsBinary(tokens[k + 1]))
    => (pc = "panic" /\ err = StackUnderflow)

\* C7: a token sequence that holds no Number token never returns a value;
\* its evaluation fails, and with EmptyResult exactly when the operand
\* stack is empty after all tokens and pending operators are processed.
C7_NoNumberFails ==
    /\ (Tokenized /\ NoNumber(tokens)) => pc # "done"
    /\ (Terminated(Locals) /\ Tokenized /\ NoNumber(tokens)) =>
           /\ pc = "panic"
           /\ err = EmptyResult <=>
                  (i = Len(tokens) + 1 /\ operator_stack = <<>> /\ output = <<>>
                   /\ applies = 0)
    /\ (AtReturn(Locals) /\ output = <<>>) =>
           Outcome(RunFrom(Locals, str)) = <<"panic", NoValue, EmptyResult>>

\* "()" has failed with EmptyResult
C7_Witness ==
    /\ pc = "panic" /\ err = EmptyResult
    /\ Len(tokens) = 2 /\ NoNumber(tokens)

\* C8: for every well-formed infix token sequence solve returns the value
\* of the reference reading: Exp binds tighter than Mul/Div/Mod, these
\* tighter than Add/Sub, equal precedence groups left to right, and chained
\* Exp right to left.
C8_PrecedenceAndAssociativity ==
    (Terminated(Locals) /\ Tokenized /\ RefWellFormed(tokens)) =>
        (pc = "done" /\ result = RefValue(tokens))

\* 2 ^ 3 ^ 2 has returned 512
C8_Witness ==
    /\ pc = "done" /\ result = Num(512)
    /\ Len(tokens) = 5 /\ IsOp(tokens[2], "Exp") /\ IsOp(tokens[4], "Exp")

\* a measure of what solve still has to do
Rank ==
    CASE pc = "tokenize" -> 3 * Len(str) + 4
      [] pc = "for" -> 3 * (Len(tokens) - i + 1) + Len(operator_stack) + 2
      [] pc = "drain" -> Len(operator_stack) + 1
      [] OTHER -> 0

\* C9: every step of solve brings it nearer to its end; tokens are consumed
\* one at a time in order; every binary operator read is on the operator
\* stack or has been applied, once, so the apply steps never exceed the
\* binary operator tokens.
C9_LinearScan ==
    [][/\ Rank' < Rank
       /\ i' \in {i, i + 1}
       /\ pc' # "tokenize" =>
              /\ applies' + OnStack(operator_stack', BinaryOps)
                     = NumBinary(tokens', i' - 1)
              /\ applies' <= NumBinary(tokens', Len(tokens'))]_vars

\* a run of five or more tokens has ended with every binary operator applied
C9_Witness ==
    /\ Terminated(Locals) /\ Len(tokens) >= 5
    /\ applies >= 2 /\ applies = NumBinary(tokens, Len(tokens))

\* the operator stack, bottom first
BottomUp == IF pc = "drain" THEN Reverse(operator_stack) ELSE operator_stack

\* C10: while solve evaluates, the operator stack holds no right
\* parenthesis, as many left parentheses as left-parenthesis tokens read
\* minus right-parenthesis tokens read, and between left parentheses
\* precedences that do not decrease from bottom to top, two neighbours
\* having equal precedence only when both are Exp.
C10_OperatorStackShape ==
    pc \in {"for", "drain"} =>
        /\ OnStack(operator_stack, {"RPar"}) = 0
        /\ OnStack(operator_stack, {"LPar"})
               = NumOp(tokens, i - 1, "LPar") - NumOp(tokens, i - 1, "RPar")
        /\ \A k \in 1..(Len(BottomUp) - 1) :
               ("LPar" \notin {BottomUp[k], BottomUp[k + 1]}) =>
                   /\ precedence(BottomUp[k]) <= precedence(BottomUp[k + 1])
                   /\ precedence(BottomUp[k]) = precedence(BottomUp[k + 1]) =>
                          (BottomUp[k] = "Exp" /\ BottomUp[k + 1] = "Exp")

\* the stack holds Sub, a left parenthesis, Mul and Exp
C10_Witness == pc = "for" /\ operator_stack = <<"Sub", "LPar", "Mul", "Exp">>

====
